---- MODULE Spec2Model ----
(***************************************************************************)
(* AP_SafeRTL: the breadcrumb path store, the anytime simplification       *)
(* (Ramer-Douglas-Peucker) and loop-pruning engines, the cleanup           *)
(* orchestrator and the lifecycle controller.                              *)
(*                                                                         *)
(* Vector3f is modelled as a triple of integers (metres).  The geometry    *)
(* primitives are evaluated in exact integer arithmetic on squared         *)
(* lengths; the one place where a quotient is stored (the midpoint of a    *)
(* loop) rounds to the nearest grid point, as a float rounds to the        *)
(* nearest representable value.                                            *)
(***************************************************************************)
EXTENDS Integers, Sequences, FiniteSets, TLC

(***************************************************************************)
(* Program constants (AP_SafeRTL.h).                                       *)
(***************************************************************************)
SAFERTL_ACCURACY_DEFAULT == 2
SAFERTL_POINTS_MAX == 500
SAFERTL_BAD_POSITION_TIMEOUT == 15000
SAFERTL_CLEANUP_START_MARGIN == 10
SAFERTL_CLEANUP_POINT_MIN == 10
SAFERTL_SIMPLIFY_TIME_US == 200

(***************************************************************************)
(* Bounds of the model.                                                    *)
(***************************************************************************)
\* largest number of loop iterations one call of an engine gets through
\* before its time budget expires
MaxBudget == 2
\* number of clock advances the model follows
MaxClockSteps == 2

\* the clock advances in steps of this many milliseconds
ClockStep == 8000

(***************************************************************************)
(* Vector3f                                                                *)
(***************************************************************************)
Zero3 == <<0, 0, 0>>

VAdd(u, v) == <<u[1] + v[1], u[2] + v[2], u[3] + v[3]>>

VSub(u, v) == <<u[1] - v[1], u[2] - v[2], u[3] - v[3]>>

VScale(u, k) == <<u[1] * k, u[2] * k, u[3] * k>>

\* Vector3f::operator*(Vector3f): dot product
Dot(u, v) == u[1] * v[1] + u[2] * v[2] + u[3] * v[3]

Cross(u, v) ==
    << u[2] * v[3] - u[3] * v[2],
       u[3] * v[1] - u[1] * v[3],
       u[1] * v[2] - u[2] * v[1] >>

LengthSq(u) == Dot(u, u)

\* Vector3f::is_zero()
IsZero3(u) == u = Zero3

Min2(a, b) == IF a < b THEN a ELSE b

Max2(a, b) == IF a > b THEN a ELSE b

\* constrain_float(v, lo, hi)
Constrain(v, lo, hi) == IF v < lo THEN lo ELSE IF v > hi THEN hi ELSE v

\* n / d rounded to the nearest integer (d > 0), halves away from zero
RoundDiv(n, d) ==
    IF n >= 0 THEN (2 * n + d) \div (2 * d)
              ELSE -((2 * (-n) + d) \div (2 * d))

\* floor(x * k / m) for x >= 0, computed without leaving 32 bits
MulDivFloor(x, k, m) == k * (x \div m) + (k * (x % m)) \div m

\* HYPOT(a, b) > _accuracy
FartherThanAccuracy(a, b, accuracy) ==
    LengthSq(VSub(a, b)) > accuracy * accuracy

(***************************************************************************)
(* point_line_dist: the distance from point to the line (line1, line2),    *)
(* as the pair <<n, d>> standing for the squared distance n / d.  The      *)
(* code obtains 2*area/b from Heron's formula; the area of the triangle    *)
(* is half the length of the cross product of two of its sides.            *)
(***************************************************************************)
point_line_dist(point, line1, line2) ==
    LET b2 == LengthSq(VSub(line1, line2))
    IN  IF b2 = 0
        THEN <<0, 1>>
        ELSE <<LengthSq(Cross(VSub(point, line1), VSub(line2, line1))), b2>>

\* dist1 > dist2, for two squared distances given as fractions
DistGreater(d1, d2) ==
    IF d1[2] = d2[2] THEN d1[1] > d2[1] ELSE d1[1] * d2[2] > d2[1] * d1[2]

\* dist > SAFERTL_SIMPLIFY_EPSILON, where the epsilon is _accuracy * 0.5
AboveSimplifyEpsilon(d, accuracy) == 4 * d[1] > accuracy * accuracy * d[2]

(***************************************************************************)
(* segment_segment_dist: closest distance between the segments (p1,p2)     *)
(* and (p3,p4) and the point midway between the two closest points.        *)
(* parallel is the FLT_MAX result; otherwise the squared distance is       *)
(* num / den.                                                              *)
(***************************************************************************)
segment_segment_dist(p1, p2, p3, p4) ==
    LET line1 == VSub(p2, p1)
        line2 == VSub(p4, p3)
        line_start_diff == VSub(p1, p3)
        a == Dot(line1, line1)
        b == Dot(line1, line2)
        c == Dot(line2, line2)
        d == Dot(line1, line_start_diff)
        e == Dot(line2, line_start_diff)
        det == a * c - b * b
        \* t1 = n1 / det and t2 = n2 / det, each constrained to [0, 1]
        n1 == Constrain(b * e - c * d, 0, det)
        n2 == Constrain(a * e - b * d, 0, det)
        \* det * dP
        dPdet == VSub(VAdd(VScale(line_start_diff, det), VScale(line1, n1)),
                      VScale(line2, n2))
        \* 2 * det * midpoint
        mid2det == VAdd(VAdd(VScale(p1, det), VScale(line1, n1)),
                        VAdd(VScale(p3, det), VScale(line2, n2)))
    IN  IF det = 0
        THEN [parallel |-> TRUE, num |-> 0, den |-> 1, midpoint |-> Zero3]
        ELSE [parallel |-> FALSE,
              num |-> LengthSq(dPdet),
              den |-> det * det,
              midpoint |-> << RoundDiv(mid2det[1], 2 * det),
                              RoundDiv(mid2det[2], 2 * det),
                              RoundDiv(mid2det[3], 2 * det) >>]

\* dp.distance <= SAFERTL_PRUNING_DELTA, where the delta is _accuracy * 0.99:
\* num / den <= (99/100)^2 * accuracy^2
WithinPruningDelta(dp, accuracy) ==
    /\ ~dp.parallel
    /\ dp.num <= MulDivFloor(dp.den, 9801 * accuracy * accuracy, 10000)

(***************************************************************************)
(* State.  The fields of AP_SafeRTL keep their names.                      *)
(*   _path_ptr, _prunable_loops_ptr, _simplify_stack_ptr: the three        *)
(*     pointers, as "null", "valid" or "freed" (freed and left dangling).  *)
(*   _path: the path buffer, indexed from 0; slots above _path_last_index  *)
(*     keep whatever was last stored there.                                *)
(*   _simplify_stack: the entries 0.._simplify_stack_last_index of the     *)
(*     to-do list, so _simplify_stack_last_index is Len - 1.               *)
(*   _simplify_bitmask: the set of indices whose bit is CLEAR.             *)
(*   _prunable_loops: the entries 0.._prunable_loops_last_index.           *)
(*   millis: AP_HAL::millis().  The code subtracts two uint32_t readings,   *)
(*     which gives the elapsed time whatever the wrap-around, so the       *)
(*     model keeps the time itself.                                        *)
(*   mem_fault: a store went outside an allocated buffer or to freed       *)
(*     memory; what the program does afterwards is undefined and the       *)
(*     model follows it no further.                                        *)
(*   flight, free_flight, leg: the positions the vehicle can report; when  *)
(*     free_flight it may report any of them at any call, otherwise it     *)
(*     reports them in order.                                              *)
(*   last_call: the most recent call of update, thorough_cleanup or        *)
(*     pop_point and what the caller saw of it (see Call below).           *)
(*   home: the position the last successful reset_path was given.          *)
(*   trail, trail_ok, trail_peak: the caller's own record of the path      *)
(*     while it only appends and pops: the positions it has given update   *)
(*     since then, each farther than the accuracy from the one before,     *)
(*     less those it has popped; the longest the record has been; and      *)
(*     whether the record is kept (it is dropped when the caller pops      *)
(*     with nothing recorded or thorough_cleanup has run).                 *)
(*   returning: the vehicle has stopped recording and prepares to return. *)
(*   io: where the IO thread is in detect_simplifications or detect_loops  *)
(*     when the two run in it and the main thread's calls come between    *)
(*     their statements, and the local variables of the call: pc is       *)
(*     "idle" between calls.  The calls of the engines as a whole leave   *)
(*     it alone.                                                           *)
(***************************************************************************)
VARIABLES
    _accuracy, _points_max,
    _path_ptr, _prunable_loops_ptr, _simplify_stack_ptr,
    _active, _last_good_position_ms,
    _path, _path_points_max, _path_last_index,
    _simplify_complete, _simplify_stack, _simplify_stack_max,
    _simplify_bitmask, _simplify_clean_until,
    _prune_complete, _prune_current_i, _prune_min_j,
    _prunable_loops, _prunable_loops_max, _prune_clean_until,
    millis, clock_steps, mem_fault,
    flight, free_flight, leg, returning, io,
    last_call, home, trail, trail_ok, trail_peak

objvars ==
    << _accuracy, _points_max,
       _path_ptr, _prunable_loops_ptr, _simplify_stack_ptr,
       _active, _last_good_position_ms,
       _path, _path_points_max, _path_last_index,
       _simplify_complete, _simplify_stack, _simplify_stack_max,
       _simplify_bitmask, _simplify_clean_until,
       _prune_complete, _prune_current_i, _prune_min_j,
       _prunable_loops, _prunable_loops_max, _prune_clean_until,
       mem_fault >>

envvars == << flight, free_flight, returning, io >>

\* what the caller has seen of the object
obsvars == << last_call, home, trail, trail_ok, trail_peak >>

vars == << objvars, millis, clock_steps, leg, envvars, obsvars >>

\* the object as one record, for the methods that call one another
Self ==
    [ _accuracy |-> _accuracy, _points_max |-> _points_max,
      _path_ptr |-> _path_ptr, _prunable_loops_ptr |-> _prunable_loops_ptr,
      _simplify_stack_ptr |-> _simplify_stack_ptr,
      _active |-> _active, _last_good_position_ms |-> _last_good_position_ms,
      _path |-> _path, _path_points_max |-> _path_points_max,
      _path_last_index |-> _path_last_index,
      _simplify_complete |-> _simplify_complete,
      _simplify_stack |-> _simplify_stack,
      _simplify_stack_max |-> _simplify_stack_max,
      _simplify_bitmask |-> _simplify_bitmask,
      _simplify_clean_until |-> _simplify_clean_until,
      _prune_complete |-> _prune_complete,
      _prune_current_i |-> _prune_current_i,
      _prune_min_j |-> _prune_min_j,
      _prunable_loops |-> _prunable_loops,
      _prunable_loops_max |-> _prunable_loops_max,
      _prune_clean_until |-> _prune_clean_until,
      mem_fault |-> mem_fault ]

\* the object after a method has run (s is worked out once)
Commit(s) ==
    \E r \in {s} :
        /\ _accuracy' = r._accuracy
        /\ _points_max' = r._points_max
        /\ _path_ptr' = r._path_ptr
        /\ _prunable_loops_ptr' = r._prunable_loops_ptr
        /\ _simplify_stack_ptr' = r._simplify_stack_ptr
        /\ _active' = r._active
        /\ _last_good_position_ms' = r._last_good_position_ms
        /\ _path' = r._path
        /\ _path_points_max' = r._path_points_max
        /\ _path_last_index' = r._path_last_index
        /\ _simplify_complete' = r._simplify_complete
        /\ _simplify_stack' = r._simplify_stack
        /\ _simplify_stack_max' = r._simplify_stack_max
        /\ _simplify_bitmask' = r._simplify_bitmask
        /\ _simplify_clean_until' = r._simplify_clean_until
        /\ _prune_complete' = r._prune_complete
        /\ _prune_current_i' = r._prune_current_i
        /\ _prune_min_j' = r._prune_min_j
        /\ _prunable_loops' = r._prunable_loops
        /\ _prunable_loops_max' = r._prunable_loops_max
        /\ _prune_clean_until' = r._prune_clean_until
        /\ mem_fault' = r.mem_fault

\* the object is s
Holds(s) ==
    /\ _accuracy = s._accuracy
    /\ _points_max = s._points_max
    /\ _path_ptr = s._path_ptr
    /\ _prunable_loops_ptr = s._prunable_loops_ptr
    /\ _simplify_stack_ptr = s._simplify_stack_ptr
    /\ _active = s._active
    /\ _last_good_position_ms = s._last_good_position_ms
    /\ _path = s._path
    /\ _path_points_max = s._path_points_max
    /\ _path_last_index = s._path_last_index
    /\ _simplify_complete = s._simplify_complete
    /\ _simplify_stack = s._simplify_stack
    /\ _simplify_stack_max = s._simplify_stack_max
    /\ _simplify_bitmask = s._simplify_bitmask
    /\ _simplify_clean_until = s._simplify_clean_until
    /\ _prune_complete = s._prune_complete
    /\ _prune_current_i = s._prune_current_i
    /\ _prune_min_j = s._prune_min_j
    /\ _prunable_loops = s._prunable_loops
    /\ _prunable_loops_max = s._prunable_loops_max
    /\ _prune_clean_until = s._prune_clean_until
    /\ mem_fault = s.mem_fault

\* _simplify_stack_last_index
simplify_stack_last_index(s) == Len(s._simplify_stack) - 1

\* _prunable_loops_last_index
prunable_loops_last_index(s) == Len(s._prunable_loops) - 1

\* Bitmask::get
BitGet(s, i) == i \notin s._simplify_bitmask

\* a store _path[i] = p; outside the buffer, or through a dangling pointer,
\* it is a fault
PathStore(s, i, p) ==
    IF s._path_ptr = "valid" /\ i \in DOMAIN s._path
    THEN [s EXCEPT !._path = [@ EXCEPT ![i] = p]]
    ELSE [s EXCEPT !.mem_fault = TRUE]

(***************************************************************************)
(* restart_simplification, reset_simplification, restart_pruning,          *)
(* reset_pruning                                                           *)
(***************************************************************************)
restart_simplification(s) ==
    [s EXCEPT !._simplify_complete = FALSE,
              !._simplify_stack = <<>>,
              !._simplify_bitmask = {}]

reset_simplification(s) ==
    restart_simplification([s EXCEPT !._simplify_clean_until = 0])

restart_pruning(s) ==
    [s EXCEPT !._prune_complete = FALSE,
              !._prune_current_i = s._prune_clean_until,
              !._prune_min_j = s._prune_clean_until + 2,
              !._prunable_loops = <<>>]

reset_pruning(s) ==
    restart_pruning([s EXCEPT !._prune_clean_until = 0])

(***************************************************************************)
(* zero_points_by_simplify_bitmask                                         *)
(***************************************************************************)
RECURSIVE zero_simplify_from(_, _)
zero_simplify_from(s, i) ==
    IF i > s._path_last_index
    THEN s
    ELSE IF ~BitGet(s, i)
         THEN zero_simplify_from(
                  PathStore([s EXCEPT !._simplify_clean_until = Min2(@, i - 1)],
                            i, Zero3),
                  i + 1)
         ELSE zero_simplify_from(s, i + 1)

zero_points_by_simplify_bitmask(s) == zero_simplify_from(s, 0)

(***************************************************************************)
(* zero_points_by_loops                                                    *)
(***************************************************************************)
\* the inner loop: _path[j].zero() for j in start_index .. end_index - 1
\* an inner loop that leaves the first slot of the range as it is
zero_range_keep_start(s, j, end_index) ==
    [s EXCEPT !._path = [k \in DOMAIN @ |->
                            IF k > j /\ k < end_index THEN Zero3 ELSE @[k]]]

RECURSIVE zero_range(_, _, _)
zero_range(s, j, end_index) ==
    IF j >= end_index THEN s ELSE zero_range(PathStore(s, j, Zero3), j + 1, end_index)

\* the slot that receives the midpoint: (int16_t)((start_index+end_index)/2.0)
MidpointSlot(l) == (l.start_index + l.end_index) \div 2

RECURSIVE zero_loops_from(_, _, _, _)
zero_loops_from(s, i, removed_points, points_to_delete) ==
    IF i > prunable_loops_last_index(s)
    THEN s
    ELSE LET l == s._prunable_loops[i + 1]
             s1 == [s EXCEPT !._prune_clean_until = Min2(@, l.start_index - 1)]
             s2 == zero_range(s1, l.start_index, l.end_index)
             s3 == PathStore(s2, MidpointSlot(l), l.midpoint)
             removed == removed_points + (l.end_index - l.start_index - 1)
         IN  IF removed > points_to_delete
             THEN s3
             ELSE zero_loops_from(s3, i + 1, removed, points_to_delete)

zero_points_by_loops(s, points_to_delete) ==
    zero_loops_from(s, 0, 0, points_to_delete)

(***************************************************************************)
(* remove_empty_points                                                     *)
(***************************************************************************)
RECURSIVE compact_from(_, _, _, _)
compact_from(s, src, dest, removed) ==
    IF src > s._path_last_index
    THEN [s EXCEPT !._path_last_index = @ - removed]
    ELSE IF ~IsZero3(s._path[src])
         THEN compact_from(PathStore(s, dest + 1, s._path[src]),
                           src + 1, dest + 1, removed)
         ELSE compact_from(s, src + 1, dest, removed + 1)

\* a compaction that treats index 0 like every other slot
remove_empty_points_all(s) == compact_from(s, 0, -1, 0)

remove_empty_points(s) == compact_from(s, 1, 0, 0)

(***************************************************************************)
(* routine_cleanup: [ok |-> the value returned, s |-> the object after]    *)
(***************************************************************************)
\* _simplify_bitmask.size() - _simplify_bitmask.count()
potential_amount_to_simplify(s) == Cardinality(s._simplify_bitmask)

RECURSIVE prune_estimate_from(_, _)
prune_estimate_from(s, i) ==
    IF i > prunable_loops_last_index(s)
    THEN 0
    ELSE (s._prunable_loops[i + 1].end_index
            - s._prunable_loops[i + 1].start_index + 1)
         + prune_estimate_from(s, i + 1)

potential_amount_to_prune(s) == prune_estimate_from(s, 0)

\* a routine_cleanup that does not look at how full the path is
routine_cleanup_eager(s) ==
    IF potential_amount_to_simplify(s) >= SAFERTL_CLEANUP_POINT_MIN
    THEN [ok |-> TRUE,
          s |-> reset_pruning(reset_simplification(remove_empty_points(
                    zero_points_by_simplify_bitmask(s))))]
    ELSE IF potential_amount_to_prune(s) >= SAFERTL_CLEANUP_POINT_MIN
    THEN [ok |-> TRUE,
          s |-> reset_pruning(reset_simplification(remove_empty_points(
                    zero_points_by_loops(s, SAFERTL_CLEANUP_POINT_MIN))))]
    ELSE IF potential_amount_to_prune(s) + potential_amount_to_simplify(s)
              >= SAFERTL_CLEANUP_POINT_MIN
    THEN [ok |-> TRUE,
          s |-> reset_pruning(reset_simplification(remove_empty_points(
                    zero_points_by_loops(zero_points_by_simplify_bitmask(s),
                                         SAFERTL_CLEANUP_POINT_MIN))))]
    ELSE [ok |-> FALSE, s |-> s]

\* a routine_cleanup that never finds the path long enough to act
routine_cleanup_idle(s) == [ok |-> TRUE, s |-> s]

routine_cleanup(s) ==
    IF s._path_last_index
         < Max2(s._path_points_max - SAFERTL_CLEANUP_START_MARGIN, 0)
    THEN [ok |-> TRUE, s |-> s]
    ELSE IF potential_amount_to_simplify(s) >= SAFERTL_CLEANUP_POINT_MIN
    THEN [ok |-> TRUE,
          s |-> reset_pruning(reset_simplification(remove_empty_points(
                    zero_points_by_simplify_bitmask(s))))]
    ELSE IF potential_amount_to_prune(s) >= SAFERTL_CLEANUP_POINT_MIN
    THEN [ok |-> TRUE,
          s |-> reset_pruning(reset_simplification(remove_empty_points(
                    zero_points_by_loops(s, SAFERTL_CLEANUP_POINT_MIN))))]
    ELSE IF potential_amount_to_prune(s) + potential_amount_to_simplify(s)
              >= SAFERTL_CLEANUP_POINT_MIN
    THEN [ok |-> TRUE,
          s |-> reset_pruning(reset_simplification(remove_empty_points(
                    zero_points_by_loops(zero_points_by_simplify_bitmask(s),
                                         SAFERTL_CLEANUP_POINT_MIN))))]
    ELSE [ok |-> FALSE, s |-> s]

(***************************************************************************)
(* detect_simplifications.  budget is the number of passes through the     *)
(* while loop that fit into SAFERTL_SIMPLIFY_TIME_US: the pass after the   *)
(* last one finds the time expired and returns.                            *)
(***************************************************************************)
\* _simplify_stack[++_simplify_stack_last_index] = entry
SimplifyPush(s, entry) ==
    [s EXCEPT !._simplify_stack = Append(@, entry),
              !.mem_fault = @ \/ s._simplify_stack_ptr # "valid"
                              \/ Len(s._simplify_stack) >= s._simplify_stack_max]

\* a for loop that lets the last of the equally far points win
RECURSIVE farthest_from_last(_, _, _, _, _)
farthest_from_last(s, start_index, end_index, i, best) ==
    IF i >= end_index
    THEN best
    ELSE LET dist == point_line_dist(s._path[i], s._path[start_index],
                                     s._path[end_index])
         IN  IF BitGet(s, i) /\ ~DistGreater(best.max_dist, dist)
             THEN farthest_from_last(s, start_index, end_index, i + 1,
                                     [index |-> i, max_dist |-> dist])
             ELSE farthest_from_last(s, start_index, end_index, i + 1, best)

\* the for loop that finds the kept point farthest from the line
\* (start_index, end_index): [index, max_dist]
RECURSIVE farthest_from(_, _, _, _, _)
farthest_from(s, start_index, end_index, i, best) ==
    IF i >= end_index
    THEN best
    ELSE LET dist == point_line_dist(s._path[i], s._path[start_index],
                                     s._path[end_index])
         IN  IF BitGet(s, i) /\ DistGreater(dist, best.max_dist)
             THEN farthest_from(s, start_index, end_index, i + 1,
                                [index |-> i, max_dist |-> dist])
             ELSE farthest_from(s, start_index, end_index, i + 1, best)

RECURSIVE simplify_loop(_, _)
simplify_loop(s, budget) ==
    IF Len(s._simplify_stack) = 0
    THEN [s EXCEPT !._simplify_complete = TRUE]
    ELSE IF budget = 0 \/ s.mem_fault
    THEN s
    ELSE
      LET tmp == s._simplify_stack[Len(s._simplify_stack)]
          popped == [s EXCEPT !._simplify_stack =
                                  SubSeq(@, 1, Len(@) - 1)]
          start_index == tmp.start
          end_index == tmp.finish
          far == farthest_from(s, start_index, end_index, start_index + 1,
                               [index |-> start_index, max_dist |-> <<0, 1>>])
      IN  IF end_index <= s._simplify_clean_until
          THEN simplify_loop(popped, budget - 1)
          ELSE IF AboveSimplifyEpsilon(far.max_dist, s._accuracy)
          THEN IF simplify_stack_last_index(popped) > s._simplify_stack_max
               THEN [popped EXCEPT !._simplify_complete = TRUE]
               ELSE simplify_loop(
                        SimplifyPush(
                            SimplifyPush(popped,
                                [start |-> start_index, finish |-> far.index]),
                            [start |-> far.index, finish |-> end_index]),
                        budget - 1)
          ELSE simplify_loop(
                   [popped EXCEPT !._simplify_bitmask =
                        @ \cup ((start_index + 1) .. (end_index - 1))],
                   budget - 1)

detect_simplifications(s, budget) ==
    IF ~s._active \/ s._simplify_complete \/ s._path_last_index < 2
    THEN s
    ELSE IF simplify_stack_last_index(s) = -1
    THEN simplify_loop(
             SimplifyPush(s, [start |-> 0, finish |-> s._path_last_index]),
             budget)
    ELSE simplify_loop(s, budget)

(***************************************************************************)
(* detect_loops.  budget is the number of passes through the outer while   *)
(* loop that fit into SAFERTL_LOOP_TIME_US.                                *)
(***************************************************************************)
\* an inner loop that records every loop it finds, full list or not
RECURSIVE prune_inner_unbounded(_, _)
prune_inner_unbounded(s, j) ==
    IF j >= s._path_last_index
    THEN s
    ELSE LET i == s._prune_current_i
             dp == segment_segment_dist(s._path[i], s._path[i + 1],
                                        s._path[j], s._path[j + 1])
         IN  IF WithinPruningDelta(dp, s._accuracy)
             THEN prune_inner_unbounded(
                      [s EXCEPT !._prune_min_j = j,
                                !._prunable_loops = Append(@,
                                    [start_index |-> i + 1,
                                     end_index |-> j + 1,
                                     midpoint |-> dp.midpoint])],
                      j + 1)
             ELSE prune_inner_unbounded(s, j + 1)

\* an inner loop that records j itself as the end of a loop
RECURSIVE prune_inner_end_at_j(_, _)
prune_inner_end_at_j(s, j) ==
    IF j >= s._path_last_index
    THEN s
    ELSE LET i == s._prune_current_i
             dp == segment_segment_dist(s._path[i], s._path[i + 1],
                                        s._path[j], s._path[j + 1])
         IN  IF WithinPruningDelta(dp, s._accuracy)
             THEN IF prunable_loops_last_index(s) >= s._prunable_loops_max - 1
                  THEN [s EXCEPT !._prune_min_j = j,
                                 !._prune_complete = TRUE]
                  ELSE prune_inner_end_at_j(
                           [s EXCEPT !._prune_min_j = j,
                                     !._prunable_loops = Append(@,
                                         [start_index |-> i + 1,
                                          end_index |-> j,
                                          midpoint |-> dp.midpoint])],
                           j + 1)
             ELSE prune_inner_end_at_j(s, j + 1)

\* the inner while loop, from j on
RECURSIVE prune_inner(_, _)
prune_inner(s, j) ==
    IF j >= s._path_last_index
    THEN s
    ELSE LET i == s._prune_current_i
             dp == segment_segment_dist(s._path[i], s._path[i + 1],
                                        s._path[j], s._path[j + 1])
         IN  IF WithinPruningDelta(dp, s._accuracy)
             THEN IF prunable_loops_last_index(s) >= s._prunable_loops_max - 1
                  THEN [s EXCEPT !._prune_min_j = j,
                                 !._prune_complete = TRUE]
                  ELSE prune_inner(
                           [s EXCEPT !._prune_min_j = j,
                                     !._prunable_loops = Append(@,
                                         [start_index |-> i + 1,
                                          end_index |-> j + 1,
                                          midpoint |-> dp.midpoint])],
                           j + 1)
             ELSE prune_inner(s, j + 1)

\* an outer loop whose inner scan starts at the segment next to segment i
RECURSIVE prune_outer_adjacent(_, _)
prune_outer_adjacent(s, budget) ==
    IF ~(s._prune_current_i < s._path_last_index - 1)
    THEN [s EXCEPT !._prune_complete = TRUE]
    ELSE IF budget = 0
    THEN s
    ELSE LET r == prune_inner(s, Max2(s._prune_current_i + 1, s._prune_min_j))
         IN  IF r._prune_complete
             THEN r
             ELSE prune_outer_adjacent([r EXCEPT !._prune_current_i = @ + 1],
                                       budget - 1)

RECURSIVE prune_outer(_, _)
prune_outer(s, budget) ==
    IF ~(s._prune_current_i < s._path_last_index - 1)
    THEN [s EXCEPT !._prune_complete = TRUE]
    ELSE IF budget = 0
    THEN s
    ELSE LET r == prune_inner(s, Max2(s._prune_current_i + 2, s._prune_min_j))
         IN  IF r._prune_complete
             THEN r
             ELSE prune_outer([r EXCEPT !._prune_current_i = @ + 1],
                              budget - 1)

\* a detect_loops that prunes the loops it found as soon as its pass ends
detect_loops_pruning(s, budget) ==
    IF ~s._active \/ s._prune_complete \/ s._path_last_index < 3
    THEN s
    ELSE LET r == prune_outer(s, budget)
         IN  IF r._prune_complete
             THEN remove_empty_points(
                      zero_points_by_loops(r, SAFERTL_CLEANUP_POINT_MIN))
             ELSE r

detect_loops(s, budget) ==
    IF ~s._active \/ s._prune_complete \/ s._path_last_index < 3
    THEN s
    ELSE prune_outer(s, budget)

(***************************************************************************)
(* init.  path_ok, loops_ok and stack_ok say which of the three calloc     *)
(* calls return memory.                                                    *)
(***************************************************************************)
\* _points_max * SAFERTL_PRUNING_LOOP_BUFFER_LEN_MULT, converted to uint16_t
PrunableLoopsMax(points_max) == points_max \div 4

\* _points_max * SAFERTL_SIMPLIFY_STACK_LEN_MULT, converted to uint16_t; the
\* macro is (2.0f/3.0f)+1 without parentheses around it
SimplifyStackMax(points_max) == (2 * points_max) \div 3 + 1

AllocResult(ok) == IF ok THEN "valid" ELSE "null"

\* free() leaves the pointer as it is: a pointer to memory that was
\* obtained is left dangling
AfterFree(ptr) == IF ptr = "valid" THEN "freed" ELSE ptr

init(s, path_ok, loops_ok, stack_ok) ==
    LET points_max == Constrain(s._points_max, 0, SAFERTL_POINTS_MAX)
        s1 == [s EXCEPT !._points_max = points_max]
        s2 == [s1 EXCEPT
                 !._path_ptr = AllocResult(path_ok),
                 !._path = [i \in 0 .. (points_max - 1) |-> Zero3],
                 !._prunable_loops_max = PrunableLoopsMax(points_max),
                 !._prunable_loops_ptr = AllocResult(loops_ok),
                 !._simplify_stack_max = SimplifyStackMax(points_max),
                 !._simplify_stack_ptr = AllocResult(stack_ok)]
    IN  IF s._path_ptr # "null"
        THEN s
        ELSE IF points_max = 0 \/ ~(s._accuracy > 0)
        THEN s1
        ELSE IF ~(path_ok /\ loops_ok /\ stack_ok)
        THEN [s2 EXCEPT !._path_ptr = AfterFree(@),
                        !._prunable_loops_ptr = AfterFree(@),
                        !._simplify_stack_ptr = AfterFree(@)]
        ELSE [s2 EXCEPT !._path_points_max = points_max]

(***************************************************************************)
(* reset_path(position_ok, current_pos)                                    *)
(***************************************************************************)
\* a reset_path that clears the path and leaves the two engines alone
reset_path_keeping_engines(s, position_ok, current_pos, now) ==
    IF s._path_ptr = "null"
    THEN s
    ELSE LET s1 == [s EXCEPT !._path_last_index = 0]
         IN  IF ~position_ok
             THEN [s1 EXCEPT !._active = FALSE]
             ELSE [PathStore(s1, 0, current_pos)
                       EXCEPT !._last_good_position_ms = now,
                              !._active = TRUE]

reset_path(s, position_ok, current_pos, now) ==
    IF s._path_ptr = "null"
    THEN s
    ELSE LET s1 == [reset_pruning(reset_simplification(s))
                        EXCEPT !._path_last_index = 0]
         IN  IF ~position_ok
             THEN [s1 EXCEPT !._active = FALSE]
             ELSE [PathStore(s1, 0, current_pos)
                       EXCEPT !._last_good_position_ms = now,
                              !._active = TRUE]

(***************************************************************************)
(* update(position_ok, current_pos).  The distance test reads              *)
(* _path[_path_last_index]; when that index is not in the buffer the       *)
(* value read is whatever lies there, and far_if_unreadable is the         *)
(* outcome of the test.                                                    *)
(***************************************************************************)
append_point(s, current_pos) ==
    LET s1 == PathStore([s EXCEPT !._path_last_index = @ + 1],
                        s._path_last_index + 1, current_pos)
        s2 == IF s1._simplify_complete THEN restart_simplification(s1) ELSE s1
    IN  IF s2._prune_complete THEN restart_pruning(s2) ELSE s2

\* an update that takes a valid position as a reason to resume
update_resuming(s, position_ok, current_pos, now, far_if_unreadable) ==
    IF ~s._active
    THEN [s EXCEPT !._active = position_ok]
    ELSE s

\* an update that goes on to append when routine_cleanup has failed
update_ignoring_cleanup(s, position_ok, current_pos, now, far_if_unreadable) ==
    IF ~s._active
    THEN s
    ELSE IF ~position_ok
    THEN IF now - s._last_good_position_ms > SAFERTL_BAD_POSITION_TIMEOUT
         THEN [s EXCEPT !._active = FALSE]
         ELSE s
    ELSE LET s1 == [s EXCEPT !._last_good_position_ms = now]
             s2 == routine_cleanup(s1).s
             far == IF s2._path_last_index \in DOMAIN s2._path
                    THEN FartherThanAccuracy(current_pos,
                             s2._path[s2._path_last_index], s2._accuracy)
                    ELSE far_if_unreadable
         IN  IF far THEN append_point(s2, current_pos) ELSE s2

update(s, position_ok, current_pos, now, far_if_unreadable) ==
    IF ~s._active
    THEN s
    ELSE IF ~position_ok
    THEN IF now - s._last_good_position_ms > SAFERTL_BAD_POSITION_TIMEOUT
         THEN [s EXCEPT !._active = FALSE]
         ELSE s
    ELSE LET s1 == [s EXCEPT !._last_good_position_ms = now]
             rc == routine_cleanup(s1)
             s2 == rc.s
             far == IF s2._path_last_index \in DOMAIN s2._path
                    THEN FartherThanAccuracy(current_pos,
                             s2._path[s2._path_last_index], s2._accuracy)
                    ELSE far_if_unreadable
         IN  IF ~rc.ok
             THEN [s1 EXCEPT !._active = FALSE]
             ELSE IF far THEN append_point(s2, current_pos) ELSE s2

(***************************************************************************)
(* update(position_ok, save_position): the position comes from the AHRS,   *)
(* which reports ahrs_ok and ahrs_pos; far is far_if_unreadable of update. *)
(***************************************************************************)
update_ahrs(s, position_ok, save_position, ahrs_ok, ahrs_pos, now, far) ==
    IF ~s._active \/ ~position_ok \/ ~save_position
    THEN s
    ELSE update(s, position_ok /\ ahrs_ok, ahrs_pos, now, far)

(***************************************************************************)
(* thorough_cleanup: [ret |-> the value returned, s |-> the object after]  *)
(***************************************************************************)
\* a thorough_cleanup that does not wait for the two engines
thorough_cleanup_eager(s) ==
    IF ~s._active
    THEN [ret |-> FALSE, s |-> s]
    ELSE [ret |-> TRUE,
          s |-> reset_pruning(reset_simplification(remove_empty_points(
                    zero_points_by_loops(zero_points_by_simplify_bitmask(s),
                                         SAFERTL_POINTS_MAX))))]

thorough_cleanup(s) ==
    IF ~s._active
    THEN [ret |-> FALSE, s |-> s]
    ELSE IF ~s._prune_complete \/ ~s._simplify_complete
    THEN [ret |-> FALSE, s |-> s]
    ELSE [ret |-> TRUE,
          s |-> reset_pruning(reset_simplification(remove_empty_points(
                    zero_points_by_loops(zero_points_by_simplify_bitmask(s),
                                         SAFERTL_POINTS_MAX))))]

(***************************************************************************)
(* pop_point: [ret, point, s]                                              *)
(***************************************************************************)
\* a pop_point that hands the last point back and keeps it
pop_point_keeping(s) ==
    IF ~s._active \/ s._path_last_index < 0
    THEN [ret |-> FALSE, point |-> Zero3, s |-> s]
    ELSE [ret |-> TRUE, point |-> s._path[s._path_last_index], s |-> s]

pop_point(s) ==
    IF ~s._active \/ s._path_last_index < 0
    THEN [ret |-> FALSE, point |-> Zero3, s |-> s]
    ELSE [ret |-> TRUE,
          point |-> s._path[s._path_last_index],
          s |-> [s EXCEPT !._path_last_index = @ - 1]]

\* get_num_points
get_num_points(s) == s._path_last_index + 1

(***************************************************************************)
(* The vehicle and its parameters.                                         *)
(***************************************************************************)
\* a flight whose fourth leg comes back to the first and whose fifth leg
\* crosses the second: three loops are there to be found
LoopFlight ==
    << <<0, 0, 0>>, <<3, 0, 0>>, <<3, 3, 0>>, <<0, 1, 0>>, <<4, 0, 0>> >>

\* the settings of the POINTS parameter and the positions flown with each
Configurations ==
    { [points_max |-> 14, flight |-> LoopFlight, free |-> FALSE],
      [points_max |-> 3, flight |-> LoopFlight, free |-> FALSE] }

\* the legs of the flight the vehicle can be on at the next call
NextLegs ==
    IF free_flight
    THEN 1 .. Len(flight)
    ELSE {leg, Min2(leg + 1, Len(flight))}

LegAfter(l) == IF free_flight THEN leg ELSE l

(***************************************************************************)
(* What the caller sees of a call.                                         *)
(*   update:  ret is the validity of the position the call worked with,    *)
(*            point that position, cleaned whether routine_cleanup         *)
(*            compacted the path, appended whether the point count went    *)
(*            up by one.                                                   *)
(*   thorough_cleanup: ret is the value returned.                          *)
(*   pop_point: ret is the value returned, point the point handed back.    *)
(***************************************************************************)
Call(op, ret, point, cleaned, appended) ==
    [op |-> op, ret |-> ret, point |-> point,
     cleaned |-> cleaned, appended |-> appended]

\* what last_call holds after any other call
NoCall == Call("void", FALSE, Zero3, FALSE, FALSE)

(***************************************************************************)
(* Init: the object after its constructor (static storage, so every field  *)
(* the constructor does not set is zero), before init() is called.         *)
(***************************************************************************)
Constructed(points_max) ==
    [ _accuracy |-> SAFERTL_ACCURACY_DEFAULT, _points_max |-> points_max,
      _path_ptr |-> "null", _prunable_loops_ptr |-> "null",
      _simplify_stack_ptr |-> "null",
      _active |-> FALSE, _last_good_position_ms |-> 0,
      _path |-> <<>>, _path_points_max |-> 0, _path_last_index |-> 0,
      _simplify_complete |-> FALSE, _simplify_stack |-> <<>>,
      _simplify_stack_max |-> 0, _simplify_bitmask |-> {},
      _simplify_clean_until |-> 0,
      _prune_complete |-> FALSE, _prune_current_i |-> 0, _prune_min_j |-> 0,
      _prunable_loops |-> <<>>, _prunable_loops_max |-> 0,
      _prune_clean_until |-> 0,
      mem_fault |-> FALSE ]

\* nothing has been called yet
\* the IO thread between two calls
IoIdle ==
    [pc |-> "idle", start_index |-> 0, end_index |-> 0, j |-> 0]

NothingSeen ==
    /\ io = IoIdle
    /\ millis = 0
    /\ clock_steps = 0
    /\ leg = 1
    /\ returning = FALSE
    /\ last_call = NoCall
    /\ home = Zero3
    /\ trail = <<>>
    /\ trail_ok = FALSE
    /\ trail_peak = 0

InitObject(cfg) ==
    /\ Holds(Constructed(cfg.points_max))
    /\ flight = cfg.flight
    /\ free_flight = cfg.free
    /\ NothingSeen

Init == \E cfg \in Configurations : InitObject(cfg)

(***************************************************************************)
(* The calls.                                                              *)
(***************************************************************************)
CallInit ==
    /\ ~mem_fault
    /\ \E path_ok, loops_ok, stack_ok \in BOOLEAN :
          Commit(init(Self, path_ok, loops_ok, stack_ok))
    /\ last_call' = NoCall
    /\ UNCHANGED << millis, clock_steps, leg, envvars, home, trail, trail_ok,
                    trail_peak >>

\* reset_path(position_ok, current_pos); reset_path(position_ok) is the same
\* call with the AHRS position and position_ok &= the AHRS result
CallResetPath ==
    /\ ~mem_fault
    /\ \E position_ok \in BOOLEAN, l \in NextLegs :
          /\ Commit(reset_path(Self, position_ok, flight[l], millis))
          /\ leg' = LegAfter(l)
          /\ home' = IF _path_ptr # "null" /\ position_ok
                     THEN flight[l] ELSE home
          /\ trail_ok' = (_path_ptr = "valid" /\ position_ok)
          /\ trail' = <<>>
          /\ trail_peak' = 0
    /\ last_call' = NoCall
    /\ UNCHANGED << millis, clock_steps, envvars >>

\* the outcomes of the distance test of update when what it reads is not a
\* slot of the buffer
FarIfUnreadable ==
    IF _path_last_index \in DOMAIN _path THEN {FALSE} ELSE BOOLEAN

\* the last position of the caller's record
LastRecorded == IF Len(trail) = 0 THEN home ELSE trail[Len(trail)]

\* what the caller sees of update: r is the object after the call, valid
\* the validity of the position the call worked with
ObserveUpdate(r, valid, pos) ==
    LET reached == _active /\ valid
        rc == routine_cleanup(Self)
        cleaned == reached /\ rc.ok /\ rc.s # Self
        appended == reached /\ rc.ok
                      /\ r._path_last_index = rc.s._path_last_index + 1
        offered == trail_ok /\ _active /\ valid
                      /\ FartherThanAccuracy(pos, LastRecorded, _accuracy)
    IN  /\ last_call' = Call("update", valid, pos, cleaned, appended)
        /\ home' = home
        /\ trail_ok' = trail_ok
        /\ trail' = IF offered THEN Append(trail, pos) ELSE trail
        /\ trail_peak' = Max2(trail_peak, Len(trail'))

CallUpdate ==
    /\ ~mem_fault
    /\ \E position_ok \in BOOLEAN, l \in NextLegs,
          far_if_unreadable \in FarIfUnreadable :
          LET r == update(Self, position_ok, flight[l], millis,
                          far_if_unreadable)
          IN  /\ Commit(r)
              /\ leg' = LegAfter(l)
              /\ ObserveUpdate(r, position_ok, flight[l])
    /\ UNCHANGED << millis, clock_steps, envvars >>

CallUpdateAhrs ==
    /\ ~mem_fault
    /\ \E position_ok \in BOOLEAN, ahrs_ok \in BOOLEAN,
          l \in NextLegs, far_if_unreadable \in FarIfUnreadable :
          LET r == update_ahrs(Self, position_ok, TRUE, ahrs_ok, flight[l],
                               millis, far_if_unreadable)
          IN  /\ Commit(r)
              /\ leg' = LegAfter(l)
              /\ ObserveUpdate(r, position_ok /\ ahrs_ok, flight[l])
    /\ UNCHANGED << millis, clock_steps, envvars >>

CallThoroughCleanup ==
    /\ ~mem_fault
    /\ LET r == thorough_cleanup(Self)
       IN  /\ Commit(r.s)
           /\ last_call' = Call("thorough_cleanup", r.ret, Zero3, r.ret, FALSE)
           /\ trail_ok' = (trail_ok /\ ~r.ret)
           /\ trail' = IF trail_ok' THEN trail ELSE <<>>
           /\ trail_peak' = IF trail_ok' THEN trail_peak ELSE 0
    /\ UNCHANGED << millis, clock_steps, leg, envvars, home >>

CallPopPoint ==
    /\ ~mem_fault
    /\ LET r == pop_point(Self)
       IN  /\ Commit(r.s)
           /\ last_call' = Call("pop_point", r.ret, r.point, FALSE, FALSE)
           /\ trail_ok' = (trail_ok /\ Len(trail) > 0)
           /\ trail' = IF trail_ok'
                       THEN SubSeq(trail, 1, Len(trail) - 1)
                       ELSE <<>>
           /\ trail_peak' = IF trail_ok' THEN trail_peak ELSE 0
    /\ UNCHANGED << millis, clock_steps, leg, envvars, home >>

CallDetectSimplifications ==
    /\ ~mem_fault
    /\ \E budget \in 0 .. MaxBudget :
          Commit(detect_simplifications(Self, budget))
    /\ last_call' = NoCall
    /\ UNCHANGED << millis, clock_steps, leg, envvars, home, trail, trail_ok,
                    trail_peak >>

CallDetectLoops ==
    /\ ~mem_fault
    /\ \E budget \in 0 .. MaxBudget :
          Commit(detect_loops(Self, budget))
    /\ last_call' = NoCall
    /\ UNCHANGED << millis, clock_steps, leg, envvars, home, trail, trail_ok,
                    trail_peak >>

\* time passes; last_call no longer describes the present
Tick ==
    /\ ~mem_fault
    /\ clock_steps < MaxClockSteps
    /\ millis' = millis + ClockStep
    /\ clock_steps' = clock_steps + 1
    /\ last_call' = NoCall
    /\ UNCHANGED << objvars, leg, envvars, home, trail, trail_ok, trail_peak >>

Next ==
    \/ CallInit
    \/ CallResetPath
    \/ CallUpdate
    \/ CallUpdateAhrs
    \/ CallThoroughCleanup
    \/ CallPopPoint
    \/ CallDetectSimplifications
    \/ CallDetectLoops

Spec == Init /\ [][Next]_vars

(***************************************************************************)
(* The vehicle in flight with time passing: the calls that read the clock. *)
(***************************************************************************)
TimedNext ==
    \/ CallInit
    \/ CallResetPath
    \/ CallUpdate
    \/ CallUpdateAhrs
    \/ Tick

TimedSpec == Init /\ [][TimedNext]_vars

(***************************************************************************)
(* C1: once init has obtained the buffers, _path_last_index is at most     *)
(* _path_points_max - 1 after every sequence of calls, and every append    *)
(* of update stores inside the path buffer.                                *)
(***************************************************************************)
C1_LastIndexWithinCapacity ==
    /\ _path_ptr = "valid" => _path_last_index <= _path_points_max - 1
    /\ last_call.appended =>
          /\ ~mem_fault
          /\ _path_ptr = "valid"
          /\ _path_last_index \in 0 .. (_path_points_max - 1)

\* update found the path at the cleanup margin and compacted it below it
C1_Witness ==
    /\ last_call.op = "update"
    /\ last_call.cleaned
    /\ _active
    /\ _path_last_index < _path_points_max - SAFERTL_CLEANUP_START_MARGIN

(***************************************************************************)
(* C2: while the subsystem is active on buffers init obtained, at least    *)
(* one point is stored and _path[0] is the position the last reset_path    *)
(* with a valid position was given.                                        *)
(***************************************************************************)
C2_AnchorKept ==
    (_path_ptr = "valid" /\ _active) =>
        (_path_last_index >= 0 /\ _path[0] = home)

(***************************************************************************)
(* C3: when init did not obtain all three buffers, the subsystem is never  *)
(* active and no buffer is written.                                        *)
(***************************************************************************)
C3_InactiveWithoutBuffers ==
    (\E ptr \in {_path_ptr, _prunable_loops_ptr, _simplify_stack_ptr} :
        ptr # "valid")
    => (~_active /\ ~mem_fault)

(***************************************************************************)
(* C4: a step that takes _active from false to true is a reset_path call   *)
(* with a valid position; no other call re-activates the subsystem.        *)
(***************************************************************************)
C4_OnlyResetPathActivates ==
    [][(~_active /\ _active') =>
          \E l \in NextLegs :
              Commit(reset_path(Self, TRUE, flight[l], millis))]_vars

\* deactivated in flight with points stored, and a pop_point refused
C4_Witness ==
    /\ ~_active
    /\ _path_ptr = "valid"
    /\ _path_last_index >= 1
    /\ last_call.op = "pop_point"
    /\ ~last_call.ret

(***************************************************************************)
(* C5: after an update call made with an invalid position more than        *)
(* SAFERTL_BAD_POSITION_TIMEOUT ms after the last good position, the       *)
(* subsystem is deactivated.                                               *)
(***************************************************************************)
C5_BadPositionTimeout ==
    (/\ last_call.op = "update"
     /\ ~last_call.ret
     /\ millis - _last_good_position_ms > SAFERTL_BAD_POSITION_TIMEOUT)
    => ~_active

(***************************************************************************)
(* C6: a thorough_cleanup call made while the subsystem is inactive or     *)
(* either completion flag is false returns false and changes nothing of    *)
(* the object; a call that returns true was made with both flags true and  *)
(* leaves both flags false and the to-do list and the loop list empty.     *)
(***************************************************************************)
C6_ThoroughCleanupContract ==
    [][last_call'.op = "thorough_cleanup" =>
          /\ (~_active \/ ~_simplify_complete \/ ~_prune_complete) =>
                (~last_call'.ret /\ UNCHANGED objvars)
          /\ last_call'.ret =>
                /\ _active /\ _simplify_complete /\ _prune_complete
                /\ ~_simplify_complete' /\ ~_prune_complete'
                /\ _simplify_stack' = <<>>
                /\ _prunable_loops' = <<>>]_vars

\* thorough_cleanup has returned true and removed points
C6_Witness ==
    /\ last_call.op = "thorough_cleanup"
    /\ last_call.ret
    /\ _path_last_index >= 1
    /\ ~_simplify_complete /\ ~_prune_complete

(***************************************************************************)
(* The return preparation.  The vehicle records its path, then stops       *)
(* recording (BeginReturn) and from then on only the two engines, which    *)
(* the scheduler keeps calling from the IO thread, and thorough_cleanup,   *)
(* which the flight mode keeps calling until it returns true, run.         *)
(***************************************************************************)
FlightInit == ~returning /\ CallInit

FlightResetPath == ~returning /\ CallResetPath

FlightUpdate == ~returning /\ CallUpdate

BeginReturn ==
    /\ ~mem_fault
    /\ ~returning
    /\ _active
    /\ returning' = TRUE
    /\ last_call' = NoCall
    /\ UNCHANGED << objvars, millis, clock_steps, leg, flight, free_flight,
                    io, home, trail, trail_ok, trail_peak >>

ReturnDetectSimplifications == returning /\ CallDetectSimplifications

ReturnDetectLoops == returning /\ CallDetectLoops

ReturnThoroughCleanup == returning /\ CallThoroughCleanup

LiveNext ==
    \/ FlightInit
    \/ FlightResetPath
    \/ FlightUpdate
    \/ BeginReturn
    \/ ReturnDetectSimplifications
    \/ ReturnDetectLoops
    \/ ReturnThoroughCleanup

\* a call of detect_simplifications would change the object: this is
\* ENABLED <<ReturnDetectSimplifications>>_objvars, read off the method
DetectSimplificationsPending ==
    /\ returning
    /\ ~mem_fault
    /\ \E budget \in 0 .. MaxBudget :
          detect_simplifications(Self, budget) # Self

\* a call of detect_loops would change the object: this is
\* ENABLED <<ReturnDetectLoops>>_objvars, read off the method
DetectLoopsPending ==
    /\ returning
    /\ ~mem_fault
    /\ \E budget \in 0 .. MaxBudget : detect_loops(Self, budget) # Self

\* thorough_cleanup changes the object exactly in the calls that return
\* true, which are the calls made with the subsystem active and both
\* engines complete
ThoroughCleanupReturnsTrue ==
    /\ returning
    /\ ~mem_fault
    /\ _active /\ _simplify_complete /\ _prune_complete
    /\ last_call' = Call("thorough_cleanup", TRUE, Zero3, TRUE, FALSE)

\* Each of the three calls is made again and again, and a call that can
\* change the object is not put off for ever by calls that find no time
\* to do anything: weak fairness of each call on the object.  For the two
\* engines it is written out with the enabling conditions above.
LiveSpec ==
    /\ Init
    /\ [][LiveNext]_vars
    /\ ([]<>~DetectSimplificationsPending
          \/ []<><<ReturnDetectSimplifications>>_objvars)
    /\ ([]<>~DetectLoopsPending \/ []<><<ReturnDetectLoops>>_objvars)
    /\ WF_last_call(ThoroughCleanupReturnsTrue)

(***************************************************************************)
(* C7: once the vehicle has stopped recording with the subsystem active,   *)
(* whatever the number of points stored, thorough_cleanup eventually       *)
(* returns true.                                                           *)
(***************************************************************************)
C7_ThoroughCleanupEventuallyDone ==
    (returning /\ _active /\ _path_ptr = "valid")
        ~> (last_call.op = "thorough_cleanup" /\ last_call.ret)

(***************************************************************************)
(* The round trip.  The caller's record against the object.                *)
(***************************************************************************)
\* the path holds the anchor followed by the caller's record
RecordMatchesPath ==
    /\ _active
    /\ _path_last_index = Len(trail)
    /\ _path[0] = home
    /\ \A k \in 1 .. Len(trail) : _path[k] = trail[k]

\* a pop_point step hands back the last recorded point and takes it off
PopReturnsLastRecorded ==
    (last_call'.op = "pop_point" /\ Len(trail) > 0) =>
        /\ last_call'.ret
        /\ last_call'.point = trail[Len(trail)]
        /\ _path_last_index' = _path_last_index - 1

\* the round trip holds for records that have stayed within limit points
RoundTrip(limit) ==
    /\ (trail_ok' /\ trail_peak' <= limit) => RecordMatchesPath'
    /\ (trail_ok /\ trail_peak <= limit) => PopReturnsLastRecorded

\* the index at which update starts its routine cleanup
CleanupStartIndex ==
    Max2(_path_points_max - SAFERTL_CLEANUP_START_MARGIN, 0)

(***************************************************************************)
(* C8 as stated: after reset_path with a valid anchor, while the N points  *)
(* given to update keep the stored count (N + 1) below the capacity, the   *)
(* path is the anchor followed by those points, and pop_point returns them *)
(* last first, each pop succeeding and lowering the count by one.          *)
(***************************************************************************)
C8_RoundTripBelowCapacity ==
    [][RoundTrip(_path_points_max - 2)]_vars

(***************************************************************************)
(* C8 amended: the same for N that keeps _path_last_index below            *)
(* max(capacity - SAFERTL_CLEANUP_START_MARGIN, 0), so that no update call *)
(* starts the routine cleanup.                                             *)
(***************************************************************************)
C8_RoundTripBelowCleanupMargin ==
    [][RoundTrip(CleanupStartIndex - 1)]_vars

\* three points were appended and all three popped again, anchor left
C8_Witness ==
    /\ trail_ok
    /\ trail_peak = 3
    /\ trail_peak < CleanupStartIndex
    /\ Len(trail) = 0
    /\ last_call.op = "pop_point"
    /\ last_call.ret
    /\ _active
    /\ _path_last_index = 0
    /\ _path[0] = home

(***************************************************************************)
(* Compaction on its own: remove_empty_points applied to a path buffer     *)
(* whose slots hold points or the empty point (0,0,0) in any arrangement.  *)
(* trail keeps the points 0.._path_last_index as they were before the      *)
(* call.                                                                   *)
(***************************************************************************)
MaxCompactLen == 4

CompactPoints == {Zero3, <<3, 0, 0>>, <<0, 3, 0>>}

CompactInit ==
    \E path \in [0 .. (MaxCompactLen - 1) -> CompactPoints],
       last \in 0 .. (MaxCompactLen - 1) :
        /\ Holds([init(Constructed(MaxCompactLen), TRUE, TRUE, TRUE)
                     EXCEPT !._path = path,
                            !._path_last_index = last,
                            !._active = TRUE])
        /\ flight = << path[0] >>
        /\ free_flight = FALSE
        /\ NothingSeen

CallRemoveEmptyPoints ==
    /\ ~mem_fault
    /\ Commit(remove_empty_points(Self))
    /\ last_call' = Call("remove_empty_points", TRUE, Zero3, TRUE, FALSE)
    /\ trail' = [k \in 1 .. (_path_last_index + 1) |-> _path[k - 1]]
    /\ UNCHANGED << millis, clock_steps, leg, envvars, home, trail_ok,
                    trail_peak >>

CompactNext == CallRemoveEmptyPoints

CompactSpec == CompactInit /\ [][CompactNext]_vars

\* a slot that holds a point
IsPoint(p) == ~IsZero3(p)

(***************************************************************************)
(* C9: after remove_empty_points the path is the point that was at index 0 *)
(* followed by the points that were at the indices above it, in the order  *)
(* they were in, at the indices 0.._path_last_index with none left out.    *)
(***************************************************************************)
C9_CompactionKeepsOrder ==
    last_call.op = "remove_empty_points" =>
        LET survivors == << trail[1] >> \o SelectSeq(Tail(trail), IsPoint)
        IN  /\ _path_last_index = Len(survivors) - 1
            /\ \A k \in 1 .. Len(survivors) : _path[k - 1] = survivors[k]

\* an empty point lay between two points and the anchor was at the origin
C9_Witness ==
    /\ last_call.op = "remove_empty_points"
    /\ Len(trail) = MaxCompactLen
    /\ trail[1] = Zero3
    /\ trail[3] = Zero3
    /\ trail[2] # Zero3 /\ trail[4] # Zero3 /\ trail[2] # trail[4]
    /\ _path_last_index = 2

(***************************************************************************)
(* A flight round a square and then to its centre, with the POINTS         *)
(* parameter at the smallest value for which the path can grow long enough *)
(* to need more to-do entries than _simplify_stack_max.  From every point  *)
(* of such a path the line to the last point runs along an axis, and the   *)
(* point farthest from it is the very next one.                            *)
(***************************************************************************)
SpiralPointsMax == 34

SquareCorner(i) ==
    IF i % 4 = 0 THEN <<3, 0, 0>>
    ELSE IF i % 4 = 1 THEN <<0, 3, 0>>
    ELSE IF i % 4 = 2 THEN <<-3, 0, 0>>
    ELSE <<0, -3, 0>>

\* as many legs as update stores before the routine cleanup starts
SpiralLegs == SpiralPointsMax - SAFERTL_CLEANUP_START_MARGIN + 1

SpiralFlight ==
    [k \in 1 .. SpiralLegs |->
        IF k = SpiralLegs THEN Zero3 ELSE SquareCorner(k - 1)]

SpiralInit ==
    InitObject([points_max |-> SpiralPointsMax, flight |-> SpiralFlight,
                free |-> FALSE])

\* the engine gets its time once the vehicle is on the last leg
HoverDetectSimplifications ==
    /\ leg = Len(flight)
    /\ CallDetectSimplifications

\* the vehicle waits on each leg until update has recorded its position
SpiralUpdate ==
    /\ CallUpdate
    /\ (leg' = leg \/ last_call'.appended)

\* init is called at startup, before the buffers exist
StartupInit ==
    /\ _path_ptr = "null"
    /\ CallInit

\* the path is reset on arming, before the vehicle leaves the first leg
ArmingResetPath ==
    /\ leg = 1
    /\ CallResetPath

SpiralNext ==
    \/ StartupInit
    \/ ArmingResetPath
    \/ SpiralUpdate
    \/ HoverDetectSimplifications

SpiralSpec == SpiralInit /\ [][SpiralNext]_vars

(***************************************************************************)
(* C10: the to-do list of detect_simplifications never holds more than     *)
(* _simplify_stack_max entries: every push stores inside the buffer.       *)
(***************************************************************************)
C10_WorklistWithinCapacity ==
    _simplify_stack_ptr = "valid" =>
        Len(_simplify_stack) <= _simplify_stack_max

(***************************************************************************)
(* A flight whose legs cross one another near the origin, so that the      *)
(* loop detector finds more loops than its list holds: with POINTS = 15    *)
(* the list holds 3 loops and update stores 6 points before the routine    *)
(* cleanup starts.                                                         *)
(***************************************************************************)
StarPointsMax == 15

StarFlight ==
    << <<-3, 0, 0>>, <<3, 0, 0>>, <<0, -3, 0>>, <<0, 3, 0>>, <<1, -3, 0>>,
       <<2, 3, 0>> >>

StarInit ==
    InitObject([points_max |-> StarPointsMax, flight |-> StarFlight,
                free |-> FALSE])

StarNext ==
    \/ CallInit
    \/ CallResetPath
    \/ CallUpdate
    \/ CallDetectSimplifications
    \/ CallDetectLoops

StarSpec == StarInit /\ [][StarNext]_vars

(***************************************************************************)
(* C11: the list of prunable loops never holds more than                   *)
(* _prunable_loops_max entries, and a pass ends with _prune_complete set   *)
(* before the whole path is scanned only on a full list: a loop found      *)
(* while the list is full is not recorded and ends the pass.               *)
(***************************************************************************)
C11_LoopListWithinCapacity ==
    _prunable_loops_ptr = "valid" =>
        /\ Len(_prunable_loops) <= _prunable_loops_max
        /\ (_active /\ _prune_complete
              /\ _prune_current_i < _path_last_index - 1)
             => Len(_prunable_loops) = _prunable_loops_max

\* the pass has ended on a full list with part of the path not yet scanned
C11_Witness ==
    /\ _active
    /\ _prunable_loops_ptr = "valid"
    /\ _prune_complete
    /\ Len(_prunable_loops) = _prunable_loops_max
    /\ _prune_current_i < _path_last_index - 1

(***************************************************************************)
(* C12: every recorded loop has end_index >= start_index + 2.              *)
(***************************************************************************)
C12_LoopsNotAdjacent ==
    \A k \in 1 .. Len(_prunable_loops) :
        _prunable_loops[k].end_index >= _prunable_loops[k].start_index + 2

\* a loop over the shortest range there can be is on the list
C12_Witness ==
    /\ _active
    /\ \E k \in 1 .. Len(_prunable_loops) :
          _prunable_loops[k].end_index = _prunable_loops[k].start_index + 2

(***************************************************************************)
(* The engines run to completion: detect_simplifications (detect_loops)    *)
(* called again and again on an object nothing else touches, until the     *)
(* call finds nothing left to do.                                          *)
(***************************************************************************)
RECURSIVE simplify_to_completion(_)
simplify_to_completion(s) ==
    IF detect_simplifications(s, 1) = s
    THEN s
    ELSE simplify_to_completion(detect_simplifications(s, 1))

RECURSIVE prune_to_completion(_)
prune_to_completion(s) ==
    IF detect_loops(s, 1) = s
    THEN s
    ELSE prune_to_completion(detect_loops(s, 1))

\* a call of detect_simplifications on a finished pass changes nothing, and
\* a new pass over the same path ends with the same marking
SimplifyIdempotent ==
    (_active /\ _simplify_complete) =>
        /\ \A budget \in 0 .. MaxBudget :
              detect_simplifications(Self, budget) = Self
        /\ simplify_to_completion(restart_simplification(Self))
              ._simplify_bitmask = _simplify_bitmask

\* a call of detect_loops on a finished pass changes nothing, and a new
\* pass over the same path ends with the same list of loops
PruneIdempotent ==
    (_active /\ _prune_complete) =>
        /\ \A budget \in 0 .. MaxBudget : detect_loops(Self, budget) = Self
        /\ prune_to_completion(restart_pruning(Self))._prunable_loops
              = _prunable_loops

(***************************************************************************)
(* C13: once an engine has set its completion flag, further calls of it    *)
(* change nothing, and restarting it and running it to completion on the   *)
(* unchanged path gives the same marking (the same list of loops).         *)
(***************************************************************************)
C13_EnginesIdempotent ==
    ~mem_fault => (SimplifyIdempotent /\ PruneIdempotent)

(***************************************************************************)
(* C14: a call of detect_simplifications or of detect_loops leaves the     *)
(* path points, _path_last_index and _active as they were.                 *)
(***************************************************************************)
C14_EnginesKeepPath ==
    [][(CallDetectSimplifications \/ CallDetectLoops) =>
          UNCHANGED << _path, _path_last_index, _active, _path_ptr,
                       _path_points_max >>]_vars

\* both engines have run a pass over a path with a loop in it
C14_Witness ==
    /\ _active
    /\ _simplify_complete
    /\ _prune_complete
    /\ _path_last_index >= 3
    /\ Len(_prunable_loops) >= 1

(***************************************************************************)
(* C15: whatever the state before, reset_path(true, p) on an object whose  *)
(* init obtained the buffers leaves it active with the one point p stored, *)
(* both completion flags false and the to-do list and the loop list empty; *)
(* reset_path(false, p) leaves it inactive.                                *)
(***************************************************************************)
Armed(p) ==
    /\ _active
    /\ _path_last_index = 0
    /\ _path[0] = p
    /\ ~_simplify_complete
    /\ ~_prune_complete
    /\ _simplify_stack = <<>>
    /\ _prunable_loops = <<>>

C15_ResetPathPostcondition ==
    [][\A position_ok \in BOOLEAN, l \in NextLegs :
          Commit(reset_path(Self, position_ok, flight[l], millis)) =>
              /\ (position_ok /\ _path_ptr = "valid") => Armed(flight[l])'
              /\ ~position_ok => ~_active']_vars

\* the path has been reset in flight, after points were stored
C15_Witness ==
    /\ Armed(home)
    /\ _path_ptr = "valid"
    /\ trail_ok
    /\ leg >= 3
    /\ _path[1] # Zero3
    /\ last_call = NoCall

(***************************************************************************)
(* routine_cleanup as update calls it: on an active object, with a valid   *)
(* position.  It is triggered when _path_last_index has reached the        *)
(* cleanup start index.                                                    *)
(***************************************************************************)
RoutineCleanupCalled == _active /\ _path_ptr = "valid" /\ ~mem_fault

RoutineCleanupTriggered == _path_last_index >= CleanupStartIndex

(***************************************************************************)
(* C16: a routine_cleanup that is triggered and returns true leaves at     *)
(* least SAFERTL_CLEANUP_POINT_MIN points fewer in the path than there     *)
(* were before the call.                                                   *)
(***************************************************************************)
C16_CleanupRemovesPointMin ==
    (RoutineCleanupCalled /\ RoutineCleanupTriggered
       /\ routine_cleanup(Self).ok) =>
        routine_cleanup(Self).s._path_last_index
            <= _path_last_index - SAFERTL_CLEANUP_POINT_MIN

NoOptionReachesPointMin ==
    /\ potential_amount_to_simplify(Self) < SAFERTL_CLEANUP_POINT_MIN
    /\ potential_amount_to_prune(Self) < SAFERTL_CLEANUP_POINT_MIN
    /\ potential_amount_to_prune(Self) + potential_amount_to_simplify(Self)
          < SAFERTL_CLEANUP_POINT_MIN

C18_CleanupFailureDeactivates ==
    (RoutineCleanupCalled /\ RoutineCleanupTriggered
       /\ NoOptionReachesPointMin) =>
        /\ ~routine_cleanup(Self).ok
        /\ routine_cleanup(Self).s = Self
        /\ \A l \in NextLegs, far_if_unreadable \in FarIfUnreadable :
              update(Self, TRUE, flight[l], millis, far_if_unreadable)
                  = [Self EXCEPT !._active = FALSE,
                                 !._last_good_position_ms = millis]

\* an update with a valid position has deactivated the subsystem, the path
\* holding several points
C18_Witness ==
    /\ last_call.op = "update"
    /\ last_call.ret
    /\ ~_active
    /\ _path_ptr = "valid"
    /\ RoutineCleanupTriggered
    /\ _path_last_index >= 1
    /\ NoOptionReachesPointMin

(***************************************************************************)
(* A flight along a straight line with a turn at the end, so that the      *)
(* simplification has points to discard.                                   *)
(***************************************************************************)
LinePointsMax == 15

LineFlight ==
    << <<0, 0, 0>>, <<3, 0, 0>>, <<6, 0, 0>>, <<9, 0, 0>>, <<9, 3, 0>> >>

LineInit ==
    InitObject([points_max |-> LinePointsMax, flight |-> LineFlight,
                free |-> FALSE])

LineNext ==
    \/ CallInit
    \/ CallResetPath
    \/ CallUpdate
    \/ CallDetectSimplifications

LineSpec == LineInit /\ [][LineNext]_vars

(***************************************************************************)
(* C19: whenever _simplify_complete is set (and the to-do list did not     *)
(* overflow, which leaves entries on it), the marking is the one a pass    *)
(* over the range (0, _path_last_index) of the path as it stands gives,    *)
(* also when update appended points while the pass was in progress.        *)
(***************************************************************************)
C19_CompleteMarkingCoversPath ==
    (_active /\ ~mem_fault /\ _simplify_complete /\ _simplify_stack = <<>>)
        => _simplify_bitmask
             = simplify_to_completion(restart_simplification(Self))
                   ._simplify_bitmask

(***************************************************************************)
(* C20: whenever _prune_complete is set (and the loop list did not fill),  *)
(* every pair of segments (i, j) of the path as it stands that a pass      *)
(* compares has been compared, so the loops on the list are those a pass   *)
(* over the whole path records, also when update appended points while     *)
(* the pass was in progress.                                               *)
(***************************************************************************)
C20_CompleteScanCoversPath ==
    (/\ _active
     /\ ~mem_fault
     /\ _prune_complete
     /\ Len(_prunable_loops) < _prunable_loops_max)
        => _prunable_loops
             = prune_to_completion(restart_pruning(Self))._prunable_loops

(***************************************************************************)
(* C21: a call of update, thorough_cleanup or pop_point that changes the   *)
(* stored path (a point appended, points removed by a compaction, the last *)
(* point popped) leaves both completion flags false.                       *)
(***************************************************************************)
\* the points stored, as a sequence
StoredPath == [k \in 1 .. (_path_last_index + 1) |-> _path[k - 1]]

C21_MutationClearsCompletion ==
    [][(/\ last_call'.op \in {"update", "thorough_cleanup", "pop_point"}
        /\ _path_ptr = "valid"
        /\ ~mem_fault'
        /\ StoredPath' # StoredPath)
          => (~_simplify_complete' /\ ~_prune_complete')]_vars

(***************************************************************************)
(* One comparison of the inner loop of detect_loops, on segment            *)
(* (i, i + 1) with i = _prune_current_i and segment (j, j + 1).            *)
(***************************************************************************)
\* detect_loops is in a pass and its outer loop goes on
PruningInProgress ==
    /\ _active
    /\ ~mem_fault
    /\ _path_ptr = "valid"
    /\ ~_prune_complete
    /\ _path_last_index >= 3
    /\ _prune_current_i < _path_last_index - 1

\* the values of j the inner loop goes through
InnerScan ==
    Max2(_prune_current_i + 2, _prune_min_j) .. (_path_last_index - 1)

SegmentsAt(j) ==
    segment_segment_dist(_path[_prune_current_i], _path[_prune_current_i + 1],
                         _path[j], _path[j + 1])

\* the comparison at j finds a loop and the list has room for it
LoopFoundAt(j) ==
    /\ WithinPruningDelta(SegmentsAt(j), _accuracy)
    /\ ~(prunable_loops_last_index(Self) >= _prunable_loops_max - 1)

\* the object with the loop found at j recorded as ending at end_index
RecordedAt(j, end_index) ==
    [Self EXCEPT !._prune_min_j = j,
                 !._prunable_loops = Append(@,
                     [start_index |-> _prune_current_i + 1,
                      end_index |-> end_index,
                      midpoint |-> SegmentsAt(j).midpoint])]

(***************************************************************************)
(* C22 as stated: a loop found at (i, j) with room on the list is recorded *)
(* as (i + 1, j, midpoint), leaves _prune_current_i as it is and sets      *)
(* _prune_min_j to j, and the scan goes on at j + 1.                       *)
(***************************************************************************)
C22_LoopRecordedEndsAtJ ==
    PruningInProgress =>
        \A j \in InnerScan :
            LoopFoundAt(j) =>
                prune_inner(Self, j) = prune_inner(RecordedAt(j, j), j + 1)

(***************************************************************************)
(* C22: a loop found at (i, j) with room on the list is recorded as        *)
(* (i + 1, j + 1, midpoint), leaves _prune_current_i as it is and sets     *)
(* _prune_min_j to j, and the scan goes on at j + 1.                       *)
(***************************************************************************)
C22_LoopRecordedEndsAfterJ ==
    PruningInProgress =>
        \A j \in InnerScan :
            LoopFoundAt(j) =>
                prune_inner(Self, j)
                    = prune_inner(RecordedAt(j, j + 1), j + 1)

\* a pass in progress is about to find a loop
C22_Witness ==
    /\ PruningInProgress
    /\ \E j \in InnerScan : LoopFoundAt(j)
    /\ Len(_prunable_loops) >= 1

(***************************************************************************)
(* One recorded loop applied to the path: zero_points_by_loops with that   *)
(* loop alone on the list, then remove_empty_points.                       *)
(***************************************************************************)
PathOf(s) == [k \in 1 .. (s._path_last_index + 1) |-> s._path[k - 1]]

LoopApplied(l) ==
    PathOf(remove_empty_points(
               zero_points_by_loops([Self EXCEPT !._prunable_loops = << l >>],
                                    SAFERTL_POINTS_MAX)))

\* the stored points at the indices first .. last
PathSlice(first, last) ==
    [k \in 1 .. (last - first + 1) |-> _path[first + k - 1]]

\* what remove_empty_points keeps of a sequence of slots that starts at
\* index 0
Compacted(slots) == << slots[1] >> \o SelectSeq(Tail(slots), IsPoint)

\* the loops on the list lie within the stored path
LoopsApplicable ==
    /\ _active
    /\ ~mem_fault
    /\ _path_ptr = "valid"
    /\ \A k \in 1 .. Len(_prunable_loops) :
          _prunable_loops[k].end_index <= _path_last_index

(***************************************************************************)
(* C23 as stated: applying a loop and compacting removes the points        *)
(* strictly between start_index and end_index and puts the midpoint in     *)
(* their place; the points at start_index and at end_index survive.        *)
(***************************************************************************)
C23_LoopKeepsBothEnds ==
    LoopsApplicable =>
        \A k \in 1 .. Len(_prunable_loops) :
            LET l == _prunable_loops[k]
            IN  LoopApplied(l)
                  = Compacted(PathSlice(0, l.start_index)
                                \o << l.midpoint >>
                                \o PathSlice(l.end_index, _path_last_index))

(***************************************************************************)
(* C23: applying a loop and compacting removes the points at the indices   *)
(* start_index .. end_index - 1 and puts the midpoint in their place; the  *)
(* points before start_index and from end_index on survive.                *)
(***************************************************************************)
C23_LoopKeepsEndOnly ==
    LoopsApplicable =>
        \A k \in 1 .. Len(_prunable_loops) :
            LET l == _prunable_loops[k]
            IN  LoopApplied(l)
                  = Compacted(PathSlice(0, l.start_index - 1)
                                \o << l.midpoint >>
                                \o PathSlice(l.end_index, _path_last_index))

\* a loop whose midpoint is not the origin is on the list
C23_Witness ==
    /\ LoopsApplicable
    /\ _prune_complete
    /\ \E k \in 1 .. Len(_prunable_loops) :
          /\ _prunable_loops[k].midpoint # Zero3
          /\ _prunable_loops[k].end_index < _path_last_index

(***************************************************************************)
(* C24: of two loops on the list, the one recorded later does not lie      *)
(* within the index range of the one recorded earlier.                     *)
(***************************************************************************)
C24_NoNestedLoops ==
    \A a, b \in 1 .. Len(_prunable_loops) :
        a < b =>
            ~(/\ _prunable_loops[a].start_index
                    <= _prunable_loops[b].start_index
              /\ _prunable_loops[b].end_index
                    <= _prunable_loops[a].end_index)

(***************************************************************************)
(* A flight out along a straight line and back along the same line.        *)
(***************************************************************************)
BackPointsMax == 15

BackFlight ==
    << <<3, 0, 0>>, <<6, 0, 0>>, <<9, 0, 0>>, <<12, 0, 0>>, <<9, 0, 0>>,
       <<6, 0, 0>> >>

BackInit ==
    InitObject([points_max |-> BackPointsMax, flight |-> BackFlight,
                free |-> FALSE])

BackNext ==
    \/ CallInit
    \/ CallResetPath
    \/ CallUpdate
    \/ CallDetectLoops

BackSpec == BackInit /\ [][BackNext]_vars

\* every leg of the flight has been stored
WholeFlightStored ==
    /\ _active
    /\ ~mem_fault
    /\ _path_ptr = "valid"
    /\ StoredPath = flight

(***************************************************************************)
(* C25: once detect_loops has run to completion on a path that goes out    *)
(* along a straight line and comes back along it, there is a loop on the   *)
(* list, over a range that contains the turning point.                     *)
(***************************************************************************)
C25_OutAndBackLoopFound ==
    (WholeFlightStored /\ _prune_complete) =>
        \E k \in 1 .. Len(_prunable_loops) :
            /\ _prunable_loops[k].start_index <= 3
            /\ _prunable_loops[k].end_index > 3

(***************************************************************************)
(* A flight round a square and back to the point it started from.          *)
(***************************************************************************)
RingPointsMax == 15

RingFlight ==
    << <<3, 0, 0>>, <<0, 3, 0>>, <<-3, 0, 0>>, <<0, -3, 0>>, <<3, 0, 0>> >>

RingInit ==
    InitObject([points_max |-> RingPointsMax, flight |-> RingFlight,
                free |-> FALSE])

RingNext ==
    \/ CallInit
    \/ CallResetPath
    \/ CallUpdate
    \/ CallDetectSimplifications

RingSpec == RingInit /\ [][RingNext]_vars

(***************************************************************************)
(* The marking read as a result: which stored points it discards, and      *)
(* between which kept points each of them lies.                            *)
(***************************************************************************)
\* the closest distance from point to the line through line1 and line2, as
\* the pair <<n, d>> standing for the squared distance n / d; when the two
\* points are one, the distance to that point
DistanceToLine(point, line1, line2) ==
    IF line1 = line2
    THEN <<LengthSq(VSub(point, line1)), 1>>
    ELSE <<LengthSq(Cross(VSub(point, line1), VSub(line2, line1))),
           LengthSq(VSub(line2, line1))>>

\* the stored points above index 0 whose bit is clear
Discarded == {i \in 1 .. _path_last_index : ~BitGet(Self, i)}

\* a and b are the nearest kept points before and after the discarded i
KeptAround(a, i, b) ==
    /\ a < i /\ i < b
    /\ BitGet(Self, a) /\ BitGet(Self, b)
    /\ \A k \in (a + 1) .. (b - 1) : ~BitGet(Self, k)

MarkingValid ==
    /\ BitGet(Self, 0)
    /\ \A i \in Discarded :
          \E a \in 0 .. (i - 1), b \in (i + 1) .. _path_last_index :
              /\ KeptAround(a, i, b)
              /\ ~AboveSimplifyEpsilon(
                     DistanceToLine(_path[i], _path[a], _path[b]), _accuracy)

(***************************************************************************)
(* C26: at every moment of a simplification pass and after it, on a path   *)
(* that is not compacted meanwhile, bit 0 is set and every discarded point *)
(* lies between two kept points and within SAFERTL_SIMPLIFY_EPSILON of the *)
(* line through them.                                                      *)
(***************************************************************************)
C26_MarkingAlwaysValid ==
    (_active /\ ~mem_fault /\ _path_ptr = "valid") => MarkingValid

(***************************************************************************)
(* Scenario A: the path of the example, a path with two points equally far *)
(* from the line between its ends, and the flight along a straight line.   *)
(***************************************************************************)
ScenarioPointsMax == 15

ExampleFlight ==
    << <<0, 0, 0>>, <<10, 0, 0>>, <<10, 10, 0>>, <<20, 10, 0>> >>

TieFlight == << <<0, 0, 0>>, <<3, 2, 0>>, <<6, 2, 0>>, <<9, 0, 0>> >>

ScenarioInit ==
    \E f \in {ExampleFlight, TieFlight, LineFlight} :
        InitObject([points_max |-> ScenarioPointsMax, flight |-> f,
                    free |-> FALSE])

ScenarioNext ==
    \/ CallInit
    \/ CallResetPath
    \/ CallUpdate
    \/ CallDetectSimplifications

ScenarioSpec == ScenarioInit /\ [][ScenarioNext]_vars

\* the marking detect_simplifications ends with when it is run to
\* completion on the path as it stands
CompleteMarking ==
    simplify_to_completion(restart_simplification(Self))._simplify_bitmask

\* a path detect_simplifications works on
Simplifiable ==
    /\ _active
    /\ ~mem_fault
    /\ _path_ptr = "valid"
    /\ _path_last_index >= 2

Interior == 1 .. (_path_last_index - 1)

\* every interior point lies on the line through the two end points
AllCollinear ==
    \A i \in Interior :
        Cross(VSub(_path[i], _path[0]),
              VSub(_path[_path_last_index], _path[0])) = Zero3

\* i is the first of the interior points farthest from the line through the
\* end points, and farther from it than SAFERTL_SIMPLIFY_EPSILON
FirstFarthest(i) ==
    LET d(k) == point_line_dist(_path[k], _path[0], _path[_path_last_index])
    IN  /\ AboveSimplifyEpsilon(d(i), _accuracy)
        /\ \A k \in Interior : ~DistGreater(d(k), d(i))
        /\ \A k \in Interior : k < i => DistGreater(d(i), d(k))

(***************************************************************************)
(* C27: detect_simplifications run to completion on a path of at least 3   *)
(* points discards every interior point when all of them lie on the line   *)
(* through the two end points, and keeps the first of the points farthest  *)
(* from that line when it is farther than the epsilon; on the path         *)
(* (0,0,0), (10,0,0), (10,10,0), (20,10,0) it keeps both middle points.    *)
(***************************************************************************)
C27_ScenarioA ==
    Simplifiable =>
        /\ AllCollinear => CompleteMarking = Interior
        /\ \A i \in Interior : FirstFarthest(i) => i \notin CompleteMarking
        /\ StoredPath = ExampleFlight => CompleteMarking = {}

\* the path with the two equally far points is stored, and the pass over it
\* has ended
C27_Witness ==
    /\ Simplifiable
    /\ StoredPath = TieFlight
    /\ _simplify_complete
    /\ _simplify_bitmask = CompleteMarking
    /\ _simplify_bitmask # {}

(***************************************************************************)
(* The engines called again and again, each call with the same budget, on  *)
(* an object nothing else touches.                                         *)
(***************************************************************************)
\* more passes than a pass over the whole path takes
Uninterrupted(s) == 2 * s._path_points_max + 1

\* detect_simplifications has work left
SimplifyPending(s) ==
    s._active /\ ~s._simplify_complete /\ s._path_last_index >= 2

\* detect_loops has work left
PrunePending(s) ==
    s._active /\ ~s._prune_complete /\ s._path_last_index >= 3

RECURSIVE simplify_in_calls(_, _)
simplify_in_calls(s, budget) ==
    IF ~SimplifyPending(s) \/ s.mem_fault
    THEN s
    ELSE simplify_in_calls(detect_simplifications(s, budget), budget)

RECURSIVE prune_in_calls(_, _)
prune_in_calls(s, budget) ==
    IF ~PrunePending(s) \/ s.mem_fault
    THEN s
    ELSE prune_in_calls(detect_loops(s, budget), budget)

\* the marking and the list of loops do not depend on how many passes each
\* call makes
SameResultHoweverSplit ==
    \A budget \in 1 .. MaxBudget :
        /\ simplify_in_calls(Self, budget)._simplify_bitmask
              = detect_simplifications(Self, Uninterrupted(Self))
                    ._simplify_bitmask
        /\ prune_in_calls(Self, budget)._prunable_loops
              = detect_loops(Self, Uninterrupted(Self))._prunable_loops

\* a call that finds work left does at least one pass of it: it does not
\* return the object as it was when the call reached its while loop
EveryCallProgresses ==
    \A budget \in 0 .. MaxBudget :
        /\ SimplifyPending(Self) =>
              detect_simplifications(Self, budget)
                  # detect_simplifications(Self, 0)
        /\ PrunePending(Self) => detect_loops(Self, budget) # Self

(***************************************************************************)
(* C28: on a path that does not change, the marking and the list of loops  *)
(* at completion are the same however the passes are divided among calls,  *)
(* from one call that is never interrupted to calls of one pass each, and  *)
(* every call that starts with work left does at least one pass.           *)
(***************************************************************************)
C28_AnytimeEquivalence ==
    (~mem_fault /\ _path_ptr = "valid") =>
        (SameResultHoweverSplit /\ EveryCallProgresses)

(***************************************************************************)
(* The slots a cleanup is to remove, kept as a set of flags instead of as  *)
(* zeroed coordinates: the cleared bits of the marking, then for each loop *)
(* in turn the range start_index .. end_index - 1 without the slot the     *)
(* midpoint is written to.                                                 *)
(***************************************************************************)
RECURSIVE flag_loops_from(_, _, _)
flag_loops_from(s, i, f) ==
    IF i > prunable_loops_last_index(s)
    THEN f
    ELSE LET l == s._prunable_loops[i + 1]
         IN  flag_loops_from(s, i + 1,
                 [flags |-> (f.flags \cup (l.start_index .. (l.end_index - 1)))
                                \ {MidpointSlot(l)},
                  slots |-> [f.slots EXCEPT ![MidpointSlot(l)] = l.midpoint]])

FlaggedSlots(s) ==
    flag_loops_from(s, 0,
        [flags |-> s._simplify_bitmask \cap (1 .. s._path_last_index),
         slots |-> s._path])

\* the slots i .. _path_last_index without the flagged ones above index 0
RECURSIVE unflagged_from(_, _, _)
unflagged_from(s, f, i) ==
    IF i > s._path_last_index
    THEN << >>
    ELSE (IF i = 0 \/ i \notin f.flags THEN << f.slots[i] >> ELSE << >>)
             \o unflagged_from(s, f, i + 1)

\* thorough_cleanup applies the marking and the loops
ThoroughCleanupApplies ==
    /\ LoopsApplicable
    /\ _simplify_complete
    /\ _prune_complete

(***************************************************************************)
(* C29: a cleanup removes exactly the flagged slots: the points with a     *)
(* cleared keep-bit and the points of an applied loop range that the       *)
(* loop's midpoint did not overwrite.  An unflagged point stays whatever   *)
(* its coordinates, (0,0,0) included, and every midpoint written stays.    *)
(***************************************************************************)
C29_CleanupRemovesFlaggedOnly ==
    ThoroughCleanupApplies =>
        PathOf(thorough_cleanup(Self).s)
            = unflagged_from(Self, FlaggedSlots(Self), 0)

(***************************************************************************)
(* The engines in the IO thread.  init registers detect_simplifications    *)
(* and detect_loops as IO processes; update is called from the main        *)
(* thread, which pre-empts the IO thread, so a whole call of update can    *)
(* come between any two steps below.  The steps read the fields as they    *)
(* are at that moment; start_index, end_index and j are the locals of the  *)
(* call in progress.  A time test may find the time expired at any pass.   *)
(***************************************************************************)
\* the call returns
IoReturn == io' = IoIdle

IoAt(pc) == ~mem_fault /\ io.pc = pc

IoUnchanged ==
    UNCHANGED << millis, clock_steps, leg, flight, free_flight, returning,
                 home, trail, trail_ok, trail_peak >>

\* detect_simplifications is called: the entry test and the seeding of an
\* empty stack
IoSimplifyEnter ==
    /\ IoAt("idle")
    /\ SimplifyPending(Self)
    /\ Commit(detect_simplifications(Self, 0))
    /\ io' = [io EXCEPT !.pc = "simplify_while"]
    /\ last_call' = NoCall
    /\ IoUnchanged

\* the top of the while loop: the loop test, the time test and the pop
IoSimplifyWhile ==
    /\ IoAt("simplify_while")
    /\ last_call' = NoCall
    /\ IoUnchanged
    /\ IF simplify_stack_last_index(Self) < 0
       THEN /\ Commit([Self EXCEPT !._simplify_complete = TRUE])
            /\ IoReturn
       ELSE \/ UNCHANGED objvars /\ IoReturn
            \/ LET tmp == _simplify_stack[Len(_simplify_stack)]
               IN  /\ Commit([Self EXCEPT !._simplify_stack =
                                              SubSeq(@, 1, Len(@) - 1)])
                   /\ io' = [io EXCEPT
                                !.pc = IF tmp.finish <= _simplify_clean_until
                                       THEN "simplify_while"
                                       ELSE "simplify_for",
                                !.start_index = tmp.start,
                                !.end_index = tmp.finish]

\* the rest of the loop body: the for loop over the range, then the two new
\* ranges or the cleared bits
IoSimplifyBody ==
    /\ IoAt("simplify_for")
    /\ last_call' = NoCall
    /\ IoUnchanged
    /\ io' = [io EXCEPT !.pc = "simplify_while"]
    /\ IF io.end_index \notin DOMAIN _path
       THEN Commit([Self EXCEPT !.mem_fault = TRUE])
       ELSE LET far == farthest_from(Self, io.start_index, io.end_index,
                           io.start_index + 1,
                           [index |-> io.start_index, max_dist |-> <<0, 1>>])
            IN  IF AboveSimplifyEpsilon(far.max_dist, _accuracy)
                THEN IF simplify_stack_last_index(Self) > _simplify_stack_max
                     THEN Commit([Self EXCEPT !._simplify_complete = TRUE])
                     ELSE Commit(SimplifyPush(
                              SimplifyPush(Self,
                                  [start |-> io.start_index,
                                   finish |-> far.index]),
                              [start |-> far.index, finish |-> io.end_index]))
                ELSE Commit([Self EXCEPT !._simplify_bitmask =
                        @ \cup ((io.start_index + 1) .. (io.end_index - 1))])

\* detect_loops is called: the entry test
IoPruneEnter ==
    /\ IoAt("idle")
    /\ PrunePending(Self)
    /\ io' = [io EXCEPT !.pc = "prune_while"]
    /\ last_call' = NoCall
    /\ UNCHANGED objvars
    /\ IoUnchanged

\* the top of the outer while loop: the loop test, the time test and
\* j = MAX(_prune_current_i + 2, _prune_min_j)
IoPruneWhile ==
    /\ IoAt("prune_while")
    /\ last_call' = NoCall
    /\ IoUnchanged
    /\ IF ~(_prune_current_i < _path_last_index - 1)
       THEN /\ Commit([Self EXCEPT !._prune_complete = TRUE])
            /\ IoReturn
       ELSE \/ UNCHANGED objvars /\ IoReturn
            \/ /\ UNCHANGED objvars
               /\ io' = [io EXCEPT
                            !.pc = "prune_inner",
                            !.j = Max2(_prune_current_i + 2, _prune_min_j)]

\* the test of the inner while loop, and _prune_current_i++ when it fails
IoPruneInner ==
    /\ IoAt("prune_inner")
    /\ last_call' = NoCall
    /\ IoUnchanged
    /\ IF io.j < _path_last_index
       THEN /\ UNCHANGED objvars
            /\ io' = [io EXCEPT !.pc = "prune_body"]
       ELSE /\ Commit([Self EXCEPT !._prune_current_i = @ + 1])
            /\ io' = [io EXCEPT !.pc = "prune_while"]

\* the body of the inner while loop: the distance of segment
\* _prune_current_i from segment j, the loop recorded, j++
IoPruneBody ==
    /\ IoAt("prune_body")
    /\ last_call' = NoCall
    /\ IoUnchanged
    /\ IF (io.j + 1) \notin DOMAIN _path
            \/ (_prune_current_i + 1) \notin DOMAIN _path
       THEN /\ Commit([Self EXCEPT !.mem_fault = TRUE])
            /\ IoReturn
       ELSE LET i == _prune_current_i
                dp == segment_segment_dist(_path[i], _path[i + 1],
                                           _path[io.j], _path[io.j + 1])
            IN  IF ~WithinPruningDelta(dp, _accuracy)
                THEN /\ UNCHANGED objvars
                     /\ io' = [io EXCEPT !.pc = "prune_inner", !.j = @ + 1]
                ELSE IF prunable_loops_last_index(Self)
                            >= _prunable_loops_max - 1
                THEN /\ Commit([Self EXCEPT !._prune_min_j = io.j,
                                            !._prune_complete = TRUE])
                     /\ IoReturn
                ELSE /\ Commit([Self EXCEPT
                                  !._prune_min_j = io.j,
                                  !._prunable_loops = Append(@,
                                      [start_index |-> i + 1,
                                       end_index |-> io.j + 1,
                                       midpoint |-> dp.midpoint])])
                     /\ io' = [io EXCEPT !.pc = "prune_inner", !.j = @ + 1]

(***************************************************************************)
(* A flight that crosses its own first leg with its last, long enough for  *)
(* the routine cleanup to start at the point where the loop closes.        *)
(***************************************************************************)
RacePointsMax == 21

RaceFlight ==
    << <<0, 0, 0>>, <<6, 0, 0>>, <<9, 3, 0>>, <<9, 6, 0>>, <<9, 9, 0>>,
       <<6, 12, 0>>, <<3, 12, 0>>, <<0, 9, 0>>, <<0, 6, 0>>, <<0, 3, 0>>,
       <<3, 3, 0>>, <<3, -3, 0>> >>

RaceInit ==
    InitObject([points_max |-> RacePointsMax, flight |-> RaceFlight,
                free |-> FALSE])

RaceNext ==
    \/ StartupInit
    \/ ArmingResetPath
    \/ SpiralUpdate
    \/ IoSimplifyEnter
    \/ IoSimplifyWhile
    \/ IoSimplifyBody
    \/ IoPruneEnter
    \/ IoPruneWhile
    \/ IoPruneInner
    \/ IoPruneBody

RaceSpec == RaceInit /\ [][RaceNext]_vars

\* the worklist, the cleared bits and the recorded loops lie within the path
IndicesWithinPath ==
    /\ \A k \in 1 .. Len(_simplify_stack) :
          _simplify_stack[k].finish <= _path_last_index
    /\ _simplify_bitmask \subseteq 0 .. _path_last_index
    /\ \A k \in 1 .. Len(_prunable_loops) :
          _prunable_loops[k].end_index <= _path_last_index

\* a completion flag that is set stands for a pass over the path as it is
CompletionCoversPath ==
    /\ _simplify_complete => _simplify_bitmask = CompleteMarking
    /\ (_prune_complete /\ Len(_prunable_loops) < _prunable_loops_max) =>
          _prunable_loops
              = prune_to_completion(restart_pruning(Self))._prunable_loops

(***************************************************************************)
(* C30: with the engines in the IO thread and calls of update (its         *)
(* routine cleanup, compaction and engine reset included) coming between   *)
(* the statements of their loops, no worklist range, cleared bit or        *)
(* recorded loop refers to an index above _path_last_index, and no         *)
(* completion flag is set for a path the engine has not processed since   *)
(* its last reset.                                                         *)
(***************************************************************************)
C30_SafeReentry ==
    (_active /\ ~mem_fault /\ _path_ptr = "valid") =>
        (IndicesWithinPath /\ CompletionCoversPath)

(***************************************************************************)
(* detect_simplifications with the clock.  elapsed[n] is what the n-th     *)
(* time test of the call finds for AP_HAL::micros() - start_time_us; a     *)
(* call that makes more tests than elapsed has readings finds the last     *)
(* reading again.  pops counts the ranges the call takes off the stack.    *)
(***************************************************************************)
\* number of readings the model follows a call for
MaxReadings == 3

ElapsedReadings ==
    {0, SAFERTL_SIMPLIFY_TIME_US, SAFERTL_SIMPLIFY_TIME_US + 1}

\* the clock does not run backwards
ElapsedSeqs ==
    {e \in [1 .. MaxReadings -> ElapsedReadings] :
        \A n \in 1 .. (MaxReadings - 1) : e[n] <= e[n + 1]}

ElapsedAt(elapsed, n) == elapsed[Min2(n, Len(elapsed))]

\* a test that lets the call run twice as long
SimplifyTimeExpiredLate(reading) == reading > 2 * SAFERTL_SIMPLIFY_TIME_US

\* AP_HAL::micros() - start_time_us > SAFERTL_SIMPLIFY_TIME_US
SimplifyTimeExpired(reading) == reading > SAFERTL_SIMPLIFY_TIME_US

\* the while loop from its n-th time test on
RECURSIVE simplify_loop_timed(_, _, _)
simplify_loop_timed(s, elapsed, n) ==
    IF Len(s._simplify_stack) = 0
    THEN [s |-> [s EXCEPT !._simplify_complete = TRUE], pops |-> n - 1]
    ELSE IF SimplifyTimeExpired(ElapsedAt(elapsed, n)) \/ s.mem_fault
    THEN [s |-> s, pops |-> n - 1]
    ELSE LET r == simplify_loop(s, 1)
         IN  IF r._simplify_complete
             THEN [s |-> r, pops |-> n]
             ELSE simplify_loop_timed(r, elapsed, n + 1)

detect_simplifications_timed(s, elapsed) ==
    IF ~s._active \/ s._simplify_complete \/ s._path_last_index < 2
    THEN [s |-> s, pops |-> 0]
    ELSE simplify_loop_timed(detect_simplifications(s, 0), elapsed, 1)

CallDetectSimplificationsTimed ==
    /\ ~mem_fault
    /\ \E elapsed \in ElapsedSeqs :
          Commit(detect_simplifications_timed(Self, elapsed).s)
    /\ last_call' = NoCall
    /\ UNCHANGED << millis, clock_steps, leg, envvars, home, trail, trail_ok,
                    trail_peak >>

BudgetNext ==
    \/ CallInit
    \/ CallResetPath
    \/ CallUpdate
    \/ CallDetectSimplificationsTimed

BudgetSpec == ScenarioInit /\ [][BudgetNext]_vars

\* the readings that end the call: the last one is above the budget
Expiring == {e \in ElapsedSeqs : e[MaxReadings] > SAFERTL_SIMPLIFY_TIME_US}

\* the number of time tests that find the time within the budget: the
\* elapsed time first exceeds the budget while the range popped after the
\* last of them is processed, or before the first test
TestsPassed(elapsed) ==
    Cardinality({n \in 1 .. MaxReadings :
                    elapsed[n] <= SAFERTL_SIMPLIFY_TIME_US})

\* the call pops no range after the time has run out, and leaves the object
\* as the ranges popped until then left it
NoWorkPastBudget(elapsed) ==
    LET r == detect_simplifications_timed(Self, elapsed)
    IN  /\ r.pops <= TestsPassed(elapsed)
        /\ r.s = detect_simplifications(Self, TestsPassed(elapsed))
        /\ r.s._path = _path

TimedCallPending == SimplifyPending(Self) /\ ~mem_fault /\ _path_ptr = "valid"

(***************************************************************************)
(* C31 as stated: in a call of detect_simplifications during which the     *)
(* elapsed time exceeds SAFERTL_SIMPLIFY_TIME_US, at most the range in     *)
(* process is completed, no further range is popped, the rest of the       *)
(* worklist is left as it is, and the call returns with                    *)
(* _simplify_complete unset.                                               *)
(***************************************************************************)
C31_BudgetRespectFlagUnset ==
    TimedCallPending =>
        \A elapsed \in Expiring :
            /\ NoWorkPastBudget(elapsed)
            /\ ~detect_simplifications_timed(Self, elapsed)
                    .s._simplify_complete

(***************************************************************************)
(* C31: in a call of detect_simplifications during which the elapsed time  *)
(* exceeds SAFERTL_SIMPLIFY_TIME_US, at most the range in process is       *)
(* completed, no further range is popped and the rest of the worklist is   *)
(* left as it is; _simplify_complete is set by such a call only when the   *)
(* range in process was the last one (the worklist is empty) or the        *)
(* worklist has no room for the two ranges it gives.                       *)
(***************************************************************************)
C31_BudgetRespect ==
    TimedCallPending =>
        \A elapsed \in Expiring :
            LET r == detect_simplifications_timed(Self, elapsed)
            IN  /\ NoWorkPastBudget(elapsed)
                /\ r.s._simplify_complete =>
                      /\ r.pops >= 1
                      /\ \/ Len(r.s._simplify_stack) = 0
                         \/ simplify_stack_last_index(r.s)
                                > r.s._simplify_stack_max

\* a call has run out of time with two ranges left on the worklist
C31_Witness ==
    /\ TimedCallPending
    /\ Len(_simplify_stack) >= 2
    /\ \E elapsed \in Expiring :
          /\ TestsPassed(elapsed) >= 1
          /\ detect_simplifications_timed(Self, elapsed).pops >= 1

====
